---- MODULE Spec2Model ----
(***************************************************************************)
(* State-machine model of the multi-client TCP server of tcpServer.c:      *)
(* the accept loop of main(), and the receiveThread / sendThread pair that *)
(* main() starts for every accepted client.                                *)
(*                                                                         *)
(* A descriptor is modelled by the number of the connection it names:      *)
(* connection c (1..MaxConn) is the c-th connection accept() returns, and  *)
(* descriptor 0 is the process's standard input, which is also the value   *)
(* the slot table uses for "free".                                         *)
(***************************************************************************)
EXTENDS Integers, Sequences, FiniteSets, TLC

\* ---------------------------------------------------------------- bounds
\* Slots of stClientGroup (MAX_CLIENTS is 10 in tcpSock.h; scaled down).
MAX_CLIENTS == 1
\* Bytes of chData / achBuffer (BUFFER_SIZE is 1024 in tcpSock.h; scaled down).
BUFFER_SIZE == 2
\* Connections the environment offers to accept() during a run.
MaxConn == 2
\* Messages the peers send, in total, during a run.
MaxSend == 2
\* The same, in the runs checked for eventual behaviour.
LiveSend == 1
\* entries of the array passed to checkClientConnections
SweepLen == 3
\* calls of createClientSocket by one caller, and the largest descriptor
\* socket() returns to it
MaxCalls == 3
MaxCliFd == 3
\* createServerSocket: the largest descriptor socket() returns, the ports
\* and the backlogs it is called with
MaxSrvFd == 4
MaxPort == 2
MaxBacklog == 2

Slots == 1..MAX_CLIENTS
Conn == 1..MaxConn
Fds == 0..MaxConn

\* ------------------------------------------------------------ byte strings
\* A byte is 0 (NUL), the number f of the descriptor it was read from
\* shifted by one (so that bytes typed on descriptor 0 are not NUL), or
\* GarbageByte: a byte that was never read from any descriptor.
Tag(f) == f + 1
GarbageByte == MaxConn + 2

Zeros == [i \in 1..BUFFER_SIZE |-> 0]

\* memset(buf, 0x0, BUFFER_SIZE)
Memset0(buf) == Zeros

\* memcpy(dst, src, n), n <= BUFFER_SIZE
Memcpy(dst, src, n) == [i \in 1..BUFFER_SIZE |-> IF i <= n THEN src[i] ELSE dst[i]]

\* strlen(buf) of a BUFFER_SIZE array whose following byte is 0: the index of
\* the first NUL, BUFFER_SIZE when there is none inside the array.
Strlen(buf) ==
    IF \E i \in 1..BUFFER_SIZE : buf[i] = 0
    THEN (CHOOSE i \in 1..BUFFER_SIZE : buf[i] = 0 /\ \A j \in 1..(i-1) : buf[j] # 0) - 1
    ELSE BUFFER_SIZE

\* The first n bytes of an array, as a sequence.
Prefix(buf, n) == [i \in 1..n |-> buf[i]]

\* What one read() can return on descriptor f: 1..BUFFER_SIZE bytes, each NUL
\* or a byte of that peer, with at least one byte of the peer.
Msgs(f) == { m \in UNION { [1..n -> {0, Tag(f)}] : n \in 1..BUFFER_SIZE } :
                \E i \in DOMAIN m : m[i] # 0 }

\* read(fd, achBuffer, BUFFER_SIZE) after memset(achBuffer, 0): the bytes read
\* followed by NULs.
Pad(m) == [i \in 1..BUFFER_SIZE |-> IF i <= Len(m) THEN m[i] ELSE 0]

\* The descriptors whose bytes occur in a byte string.
Origin(d) == { f \in Fds : \E i \in DOMAIN d : d[i] = Tag(f) }

\* ------------------------------------------------------------------ state
VARIABLES
    procAlive,  \* the server process has not called exit()
    mpc,        \* main(): position in the accept loop
    mfd,        \* main(): iClientSock, the descriptor accept() returned last
    mslot,      \* main(): i, the slot being installed
    nacc,       \* connections accept() has returned so far
    offer,      \* connections the environment will still make
    sock,       \* stClientGroup[i].iClientSock (0 = free)
    exitFlag,   \* stClientGroup[i].bExitFlag
    hasData,    \* stClientGroup[i].stSharedData.hasData
    chData,     \* stClientGroup[i].stSharedData.chData
    mtx,        \* stClientGroup[i].stSharedData.mutex: 0 = unlocked, else the thread that locked it
    emtx,       \* stClientGroup[i].exitFlagMutex: 0 = unlocked, else the thread that locked it
    lastDep,    \* history: the bytes of the last deposit completed into slot i, <<>> before the first
    slotOf,     \* the slot (pstClientInfo) the worker pair of connection c was started on, 0 = none
    rpc,        \* receiveThread of connection c: position
    rbuf,       \* receiveThread of connection c: achBuffer
    spc,        \* sendThread of connection c: position
    sbuf,       \* sendThread of connection c: achBuffer
    swait,      \* sendThread of connection c inside pthread_cond_timedwait: "no", "waiting", "signalled"
    fdst,       \* descriptor f of the process: "unused", "open", "closed"
    peer,       \* the remote end of descriptor f: "open", "fin" (orderly close), "rst" (reset)
    budget,     \* messages the peers will still send
    lastRead,   \* history: the bytes of the first of MaxSend messages, as read() returned them, until the next is read; else <<>>
    sweep,      \* a call of checkClientConnections (tcpSock.c): its array, loop index and descriptors
    cliCall,    \* a call of createClientSocket (tcpSock.c): position, iSock, result
    srvCall,    \* a call of createServerSocket (tcpSock.c): position, iServerSock, options set, result
    client      \* the client process of tcpClient.c: main(), sendMessages, receiveMessages and stClientInfo

vars == <<procAlive, mpc, mfd, mslot, nacc, offer, sock, exitFlag, hasData, chData, mtx,
          lastDep, slotOf, rpc, rbuf, spc, sbuf, swait, fdst, peer, budget, lastRead, emtx, sweep, cliCall, srvCall, client>>

serverVars == <<procAlive, mpc, mfd, mslot, nacc, offer, sock, exitFlag, hasData, chData, mtx,
                lastDep, slotOf, rpc, rbuf, spc, sbuf, swait, fdst, peer, budget, lastRead, emtx>>
libVars == <<sweep, cliCall, srvCall, client>>

\* No call of a function of tcpSock.c is in progress, and no client process
\* of tcpClient.c runs.
NoCall == [pc |-> "none"]

mainVars == <<mpc, mfd, mslot, nacc, offer>>
slotVars == <<sock, exitFlag, hasData, chData, mtx, lastDep>>
recvVars == <<rpc, rbuf>>
sendVars == <<spc, sbuf, swait>>
envVars == <<fdst, peer, budget>>

\* Thread identities, as mutex owners.
Rid(c) == c
Sid(c) == MaxConn + c

RPos == {"none", "r_start", "r_select", "r_read", "r_dep1", "r_dep2", "r_unlock",
         "r_err", "r_zero", "r_exit", "r_eof", "r_flag", "r_done"}
SPos == {"none", "s_start", "s_top", "s_enter", "s_waiting", "s_drain", "s_write",
         "s_flag", "s_exit", "s_setflag", "s_done"}

\* A worker thread exists and has not called pthread_exit.
RLive(c) == rpc[c] \notin {"none", "r_done"}
SLive(c) == spc[c] \notin {"none", "s_done"}

\* CLIENT_INFO stClientGroup[MAX_CLIENTS] = {0}; descriptor 0 is the open
\* standard input; nothing accepted yet.
ServerInit(conns, msgs) ==
    /\ procAlive = TRUE
    /\ mpc = "m_select"
    /\ mfd = 0
    /\ mslot = 0
    /\ nacc = 0
    /\ offer = conns
    /\ sock = [s \in Slots |-> 0]
    /\ exitFlag = [s \in Slots |-> FALSE]
    /\ hasData = [s \in Slots |-> FALSE]
    /\ chData = [s \in Slots |-> Zeros]
    /\ mtx = [s \in Slots |-> 0]
    /\ emtx = [s \in Slots |-> 0]
    /\ lastDep = [s \in Slots |-> <<>>]
    /\ slotOf = [c \in Conn |-> 0]
    /\ rpc = [c \in Conn |-> "none"]
    /\ rbuf = [c \in Conn |-> Zeros]
    /\ spc = [c \in Conn |-> "none"]
    /\ sbuf = [c \in Conn |-> Zeros]
    /\ swait = [c \in Conn |-> "no"]
    /\ fdst = [f \in Fds |-> IF f = 0 THEN "open" ELSE "unused"]
    /\ peer = [f \in Fds |-> "open"]
    /\ budget = msgs
    /\ lastRead = <<>>

\* The server alone: no function of tcpSock.c is being called.
InitWith(conns, msgs) ==
    /\ ServerInit(conns, msgs)
    /\ sweep = NoCall
    /\ cliCall = NoCall
    /\ srvCall = NoCall
    /\ client = NoCall

Init == InitWith(MaxConn, MaxSend)

LiveInit == InitWith(MaxConn, LiveSend)

\* ------------------------------------------------------- the environment
\* The peer of descriptor f has a message to send.  Nothing is typed on
\* standard input (it can reach end of file, see PeerClose).
MaySend(f) == f # 0 /\ budget > 0

\* getpeername(fd) == -1: not a connected socket (descriptor 0, a closed
\* descriptor, a connection that was reset).
GetpeernameFails(f) == f = 0 \/ fdst[f] # "open" \/ peer[f] = "rst"

\* write(fd, ...) fails: closed descriptor, or a connection that was reset.
WriteFails(f) == fdst[f] # "open" \/ peer[f] = "rst"

\* The peer of an open descriptor closes its end (FIN), or standard input
\* reaches end of file.
PeerClose(f) ==
    /\ procAlive
    /\ fdst[f] = "open"
    /\ peer[f] = "open"
    /\ peer' = [peer EXCEPT ![f] = "fin"]
    /\ UNCHANGED <<procAlive, mainVars, slotVars, slotOf, recvVars, sendVars, fdst, budget>>
    /\ UNCHANGED <<lastRead, emtx, libVars>>

\* The connection of an open socket fails (RST, keep-alive expiry).
PeerReset(f) ==
    /\ procAlive
    /\ f # 0
    /\ fdst[f] = "open"
    /\ peer[f] \in {"open", "fin"}
    /\ peer' = [peer EXCEPT ![f] = "rst"]
    /\ UNCHANGED <<procAlive, mainVars, slotVars, slotOf, recvVars, sendVars, fdst, budget>>
    /\ UNCHANGED <<lastRead, emtx, libVars>>

\* ------------------------------------------------------------ main(), 207-255
\* select(iMaxSock + 1, &stReadFds, NULL, NULL, NULL) returns: with the
\* listening descriptor readable ("ready"), or with an error, which leaves
\* stReadFds as it was built, the listening descriptor set.  Either way
\* FD_ISSET(iServerSock) holds and accept() is called.  A return for a client
\* descriptor only goes round the loop.
M_Select ==
    /\ procAlive
    /\ mpc = "m_select"
    /\ offer > 0
    /\ \E r \in {"ready", "error"} :
          mpc' = IF r = "ready" THEN "m_accept" ELSE "m_accept_err"
    /\ UNCHANGED <<procAlive, mfd, mslot, nacc, offer, slotVars, slotOf, recvVars, sendVars, envVars>>
    /\ UNCHANGED <<lastRead, emtx, libVars>>

\* accept(): a new descriptor, or a failure, on which main() calls
\* exit(EXIT_FAILURE) (226-229).
M_Accept ==
    /\ procAlive
    /\ mpc \in {"m_accept", "m_accept_err"}
    /\ \/ /\ offer > 0
          /\ offer' = offer - 1
          /\ nacc' = nacc + 1
          /\ mfd' = nacc + 1
          /\ fdst' = [fdst EXCEPT ![nacc + 1] = "open"]
          /\ mpc' = "m_scan"
          /\ UNCHANGED procAlive
       \/ /\ procAlive' = FALSE
          /\ UNCHANGED <<mpc, mfd, nacc, offer, fdst>>
    /\ UNCHANGED <<mslot, slotVars, slotOf, recvVars, sendVars, peer, budget>>
    /\ UNCHANGED <<lastRead, emtx, libVars>>

\* The first free slot of the table, 0 when there is none (236-237).
FirstFree ==
    IF \E i \in Slots : sock[i] = 0
    THEN CHOOSE i \in Slots : sock[i] = 0 /\ \A j \in 1..(i-1) : sock[j] # 0
    ELSE 0

\* for (i...) if (stClientGroup[i].iClientSock == 0) { iClientSock installed }
\* (236-239).  With no free slot the loop ends and nothing is done with the
\* accepted descriptor.
M_Scan ==
    /\ procAlive
    /\ mpc = "m_scan"
    /\ IF FirstFree # 0
       THEN /\ sock' = [sock EXCEPT ![FirstFree] = mfd]
            /\ mslot' = FirstFree
            /\ mpc' = "m_init"
       ELSE /\ mpc' = "m_select"
            /\ UNCHANGED <<sock, mslot>>
    /\ UNCHANGED <<procAlive, mfd, nacc, offer, exitFlag, hasData, chData, mtx, lastDep, slotOf,
                   recvVars, sendVars, envVars>>
    /\ UNCHANGED <<lastRead, emtx, libVars>>

\* pthread_mutex_init(&stSharedData.mutex, NULL): the mutex is unlocked,
\* whoever had locked it; stClientGroup[i].bExitFlag = false (241-245).
\* chData, hasData and the condition variable are not touched.
M_Init ==
    /\ procAlive
    /\ mpc = "m_init"
    /\ mtx' = [mtx EXCEPT ![mslot] = 0]
    /\ exitFlag' = [exitFlag EXCEPT ![mslot] = FALSE]
    /\ mpc' = "m_spawn"
    /\ UNCHANGED <<procAlive, mfd, mslot, nacc, offer, sock, hasData, chData, lastDep, slotOf,
                   recvVars, sendVars, envVars>>
    /\ UNCHANGED <<lastRead, emtx, libVars>>

\* pthread_create of receiveThread and of sendThread on &stClientGroup[i];
\* break (249-251).
M_Spawn ==
    /\ procAlive
    /\ mpc = "m_spawn"
    /\ rpc' = [rpc EXCEPT ![mfd] = "r_start"]
    /\ spc' = [spc EXCEPT ![mfd] = "s_start"]
    /\ slotOf' = [slotOf EXCEPT ![mfd] = mslot]
    /\ mpc' = "m_select"
    /\ UNCHANGED <<procAlive, mfd, mslot, nacc, offer, slotVars, rbuf, sbuf, swait, envVars>>
    /\ UNCHANGED <<lastRead, emtx, libVars>>

\* ------------------------------------------------------ receiveThread, 62-123
\* The descriptor a worker of connection c uses: it reads
\* pstClientInfo->iClientSock anew at every call.
CurFd(c) == sock[slotOf[c]]

\* sleep(1); getpeername(); on failure pthread_exit without touching the
\* exit flag (69-74).
R_Start(c) ==
    /\ procAlive
    /\ rpc[c] = "r_start"
    /\ rpc' = [rpc EXCEPT ![c] = IF GetpeernameFails(CurFd(c)) THEN "r_done" ELSE "r_select"]
    /\ UNCHANGED <<procAlive, mainVars, slotVars, slotOf, rbuf, sendVars, envVars>>
    /\ UNCHANGED <<lastRead, emtx, libVars>>

\* select() on the slot's descriptor with a 500 ms timeout (77-87): an error
\* (the descriptor is not open) breaks out of the loop; readable goes on to
\* read(); a timeout goes round the loop, which changes nothing.
R_Select(c) ==
    /\ procAlive
    /\ rpc[c] = "r_select"
    /\ LET f == CurFd(c) IN
          IF fdst[f] # "open"
          THEN rpc' = [rpc EXCEPT ![c] = "r_exit"]
          ELSE /\ \/ peer[f] # "open"
                  \/ MaySend(f)
               /\ rpc' = [rpc EXCEPT ![c] = "r_read"]
    /\ UNCHANGED <<procAlive, mainVars, slotVars, slotOf, rbuf, sendVars, envVars>>
    /\ UNCHANGED <<lastRead, emtx, libVars>>

\* The indices (from 0, as in the code) of achBuffer that the receiver writes
\* for a read() result n > 0: memset(achBuffer, 0x0, BUFFER_SIZE), the n
\* bytes read() stores, and achBuffer[iReadSize] = '\0' (88-89, 101).
R_AchBufferWritten(n) == (0..(BUFFER_SIZE - 1)) \cup (0..(n - 1)) \cup {n}

\* The indices of chData that a deposit writes when achBuffer holds buf:
\* memset(chData, 0x0, BUFFER_SIZE); memcpy(chData, achBuffer,
\* strlen(achBuffer)) (104-105).
R_ChDataWritten(buf) == (0..(BUFFER_SIZE - 1)) \cup (0..(Strlen(buf) - 1))

\* memset(achBuffer); read() (88-101).  0 breaks out of the loop; a negative
\* result goes to the error branch; n > 0 bytes are NUL-terminated in
\* achBuffer.  read() blocks while the peer is open and sends nothing.
R_Read(c) ==
    /\ procAlive
    /\ rpc[c] = "r_read"
    /\ LET f == CurFd(c) IN
          \/ /\ fdst[f] # "open" \/ peer[f] = "rst"
             /\ rpc' = [rpc EXCEPT ![c] = "r_err"]
             /\ rbuf' = [rbuf EXCEPT ![c] = Zeros]
             /\ UNCHANGED <<budget, lastRead>>
          \/ /\ fdst[f] = "open" /\ peer[f] = "fin"
             /\ rpc' = [rpc EXCEPT ![c] = "r_eof"]
             /\ rbuf' = [rbuf EXCEPT ![c] = Zeros]
             /\ UNCHANGED <<budget, lastRead>>
          \/ /\ fdst[f] = "open" /\ peer[f] = "open" /\ MaySend(f)
             /\ \E m \in Msgs(f) :
                   /\ rbuf' = [rbuf EXCEPT ![c] = Pad(m)]
                   /\ lastRead' = IF budget = MaxSend THEN m ELSE <<>>
             /\ budget' = budget - 1
             /\ rpc' = [rpc EXCEPT ![c] = "r_dep1"]
    /\ UNCHANGED <<procAlive, mainVars, slotVars, slotOf, sendVars, fdst, peer, emtx, libVars>>

\* pthread_mutex_lock; hasData = true; memset(chData) (102-104)
R_Dep1(c) ==
    /\ procAlive
    /\ rpc[c] = "r_dep1"
    /\ LET s == slotOf[c] IN
          /\ mtx[s] = 0
          /\ mtx' = [mtx EXCEPT ![s] = Rid(c)]
          /\ hasData' = [hasData EXCEPT ![s] = TRUE]
          /\ chData' = [chData EXCEPT ![s] = Memset0(@)]
    /\ rpc' = [rpc EXCEPT ![c] = "r_dep2"]
    /\ UNCHANGED <<procAlive, mainVars, sock, exitFlag, lastDep, slotOf, rbuf, sendVars, envVars>>
    /\ UNCHANGED <<lastRead, emtx, libVars>>

\* The senders blocked in pthread_cond_timedwait on the condition variable of slot s.
Waiters(s) == { d \in Conn : slotOf[d] = s /\ spc[d] = "s_waiting" /\ swait[d] = "waiting" }

\* memcpy(chData, achBuffer, strlen(achBuffer)); pthread_cond_signal (105-106):
\* one waiting sender of the slot, if there is one, is woken.  achBuffer is
\* only printed after this and memset before the next read: it is kept as zeros.
R_Dep2(c) ==
    /\ procAlive
    /\ rpc[c] = "r_dep2"
    /\ LET s == slotOf[c] IN
          /\ chData' = [chData EXCEPT ![s] = Memcpy(@, rbuf[c], Strlen(rbuf[c]))]
          /\ lastDep' = [lastDep EXCEPT ![s] = Prefix(rbuf[c], Strlen(rbuf[c]))]
          /\ IF Waiters(s) = {}
             THEN UNCHANGED swait
             ELSE \E d \in Waiters(s) : swait' = [swait EXCEPT ![d] = "signalled"]
    /\ rbuf' = [rbuf EXCEPT ![c] = Zeros]
    /\ rpc' = [rpc EXCEPT ![c] = "r_unlock"]
    /\ UNCHANGED <<procAlive, mainVars, sock, exitFlag, hasData, mtx, slotOf, spc, sbuf, envVars>>
    /\ UNCHANGED <<lastRead, emtx, libVars>>

\* pthread_mutex_unlock (107), fprintf, usleep, back to the top of the loop.
\* An unlock of a default mutex releases it whoever locked it.
R_Unlock(c) ==
    /\ procAlive
    /\ rpc[c] = "r_unlock"
    /\ mtx' = [mtx EXCEPT ![slotOf[c]] = 0]
    /\ rpc' = [rpc EXCEPT ![c] = "r_select"]
    /\ UNCHANGED <<procAlive, mainVars, sock, exitFlag, hasData, chData, lastDep, slotOf, rbuf, sendVars, envVars>>
    /\ UNCHANGED <<lastRead, emtx, libVars>>

\* iReadSize < 0: perror; handleTcpClientDisconnection(iClientSock), which
\* closes the descriptor (94-97; tcpSock.c 133-136).
R_Err(c) ==
    /\ procAlive
    /\ rpc[c] = "r_err"
    /\ fdst' = [fdst EXCEPT ![CurFd(c)] = "closed"]
    /\ rpc' = [rpc EXCEPT ![c] = "r_zero"]
    /\ UNCHANGED <<procAlive, mainVars, slotVars, slotOf, rbuf, sendVars, peer, budget>>
    /\ UNCHANGED <<lastRead, emtx, libVars>>

\* pstClientInfo->iClientSock = 0 (98); no break: back to the top of the loop.
R_Zero(c) ==
    /\ procAlive
    /\ rpc[c] = "r_zero"
    /\ sock' = [sock EXCEPT ![slotOf[c]] = 0]
    /\ rpc' = [rpc EXCEPT ![c] = "r_select"]
    /\ UNCHANGED <<procAlive, mainVars, exitFlag, hasData, chData, mtx, lastDep, slotOf, rbuf, sendVars, envVars>>
    /\ UNCHANGED <<lastRead, emtx, libVars>>

\* After the loop, left by the break of a failed select ("r_exit") or of a
\* read of 0 bytes ("r_eof"): the disconnect is printed and exitFlagMutex is
\* locked (114-119).
R_Exit(c) ==
    /\ procAlive
    /\ rpc[c] \in {"r_exit", "r_eof"}
    /\ emtx[slotOf[c]] = 0
    /\ emtx' = [emtx EXCEPT ![slotOf[c]] = Rid(c)]
    /\ rpc' = [rpc EXCEPT ![c] = "r_flag"]
    /\ UNCHANGED <<procAlive, mainVars, slotVars, slotOf, rbuf, sendVars, envVars>>
    /\ UNCHANGED <<lastRead, libVars>>

\* bExitFlag = true; pthread_mutex_unlock(&exitFlagMutex); pthread_exit
\* (120-122).
R_Flag(c) ==
    /\ procAlive
    /\ rpc[c] = "r_flag"
    /\ exitFlag' = [exitFlag EXCEPT ![slotOf[c]] = TRUE]
    /\ emtx' = [emtx EXCEPT ![slotOf[c]] = 0]
    /\ rpc' = [rpc EXCEPT ![c] = "r_done"]
    /\ UNCHANGED <<procAlive, mainVars, sock, hasData, chData, mtx, lastDep, slotOf, rbuf, sendVars, envVars>>
    /\ UNCHANGED <<lastRead, libVars>>

\* --------------------------------------------------------- sendThread, 133-188
\* getpeername(); on failure pthread_exit without touching the exit flag (143-146).
S_Start(c) ==
    /\ procAlive
    /\ spc[c] = "s_start"
    /\ spc' = [spc EXCEPT ![c] = IF GetpeernameFails(CurFd(c)) THEN "s_done" ELSE "s_top"]
    /\ UNCHANGED <<procAlive, mainVars, slotVars, slotOf, recvVars, sbuf, swait, envVars>>
    /\ UNCHANGED <<lastRead, emtx, libVars>>

\* Top of the loop: the deadline is computed and exitFlagMutex is locked
\* (149-153).
S_Top(c) ==
    /\ procAlive
    /\ spc[c] = "s_top"
    /\ emtx[slotOf[c]] = 0
    /\ emtx' = [emtx EXCEPT ![slotOf[c]] = Sid(c)]
    /\ spc' = [spc EXCEPT ![c] = "s_flag"]
    /\ UNCHANGED <<procAlive, mainVars, slotVars, slotOf, recvVars, sbuf, swait, envVars>>
    /\ UNCHANGED <<lastRead, libVars>>

\* bExitFlag is read, exitFlagMutex is unlocked, and the loop is left when
\* the flag is set (154-159).
S_Flag(c) ==
    /\ procAlive
    /\ spc[c] = "s_flag"
    /\ emtx' = [emtx EXCEPT ![slotOf[c]] = 0]
    /\ spc' = [spc EXCEPT ![c] = IF exitFlag[slotOf[c]] THEN "s_exit" ELSE "s_enter"]
    /\ UNCHANGED <<procAlive, mainVars, slotVars, slotOf, recvVars, sbuf, swait, envVars>>
    /\ UNCHANGED <<lastRead, libVars>>

\* pthread_cond_timedwait(&cond, &mutex, &stTimeout) is entered (162).  The
\* sender has not locked the mutex on its first pass, nor after a pass that
\* drained; the wait releases a default mutex whoever holds it.
S_Enter(c) ==
    /\ procAlive
    /\ spc[c] = "s_enter"
    /\ mtx' = [mtx EXCEPT ![slotOf[c]] = 0]
    /\ swait' = [swait EXCEPT ![c] = "waiting"]
    /\ spc' = [spc EXCEPT ![c] = "s_waiting"]
    /\ UNCHANGED <<procAlive, mainVars, sock, exitFlag, hasData, chData, lastDep, slotOf, recvVars, sbuf, envVars>>
    /\ UNCHANGED <<lastRead, emtx, libVars>>

\* The wait returns ETIMEDOUT with the mutex re-acquired; the mutex is not
\* unlocked on this path, bSendFlag is false, back to the top (163-164, 173-176).
S_Timeout(c) ==
    /\ procAlive
    /\ spc[c] = "s_waiting"
    /\ swait[c] = "waiting"
    /\ mtx[slotOf[c]] = 0
    /\ mtx' = [mtx EXCEPT ![slotOf[c]] = Sid(c)]
    /\ swait' = [swait EXCEPT ![c] = "no"]
    /\ spc' = [spc EXCEPT ![c] = "s_top"]
    /\ UNCHANGED <<procAlive, mainVars, sock, exitFlag, hasData, chData, lastDep, slotOf, recvVars, sbuf, envVars>>
    /\ UNCHANGED <<lastRead, emtx, libVars>>

\* The wait returns 0 after a signal, with the mutex re-acquired (162, 165).
S_Wake(c) ==
    /\ procAlive
    /\ spc[c] = "s_waiting"
    /\ swait[c] = "signalled"
    /\ mtx[slotOf[c]] = 0
    /\ mtx' = [mtx EXCEPT ![slotOf[c]] = Sid(c)]
    /\ swait' = [swait EXCEPT ![c] = "no"]
    /\ spc' = [spc EXCEPT ![c] = "s_drain"]
    /\ UNCHANGED <<procAlive, mainVars, sock, exitFlag, hasData, chData, lastDep, slotOf, recvVars, sbuf, envVars>>
    /\ UNCHANGED <<lastRead, emtx, libVars>>

\* The indices of chData that the drain reads when chData holds data:
\* strlen(chData) reads up to and including the first NUL, memcpy the bytes
\* before it (168).
S_ChDataRead(data) == 0..Strlen(data)

\* The indices of the sender's achBuffer that the drain writes:
\* memset(achBuffer, 0x0, BUFFER_SIZE); memcpy(achBuffer, chData,
\* strlen(chData)) (166, 168).
S_AchBufferWritten(data) == (0..(BUFFER_SIZE - 1)) \cup (0..(Strlen(data) - 1))

\* The drain without the pthread_mutex_unlock of line 169.
S_Drain_nounlock(c) ==
    /\ procAlive
    /\ spc[c] = "s_drain"
    /\ LET s == slotOf[c] IN
          /\ sbuf' = [sbuf EXCEPT ![c] = Memcpy(Memset0(@), chData[s], Strlen(chData[s]))]
          /\ hasData' = [hasData EXCEPT ![s] = FALSE]
    /\ spc' = [spc EXCEPT ![c] = "s_write"]
    /\ UNCHANGED <<procAlive, mainVars, sock, exitFlag, chData, mtx, lastDep, slotOf, recvVars, swait, envVars>>
    /\ UNCHANGED <<lastRead, emtx, libVars>>

\* memset(achBuffer); hasData = false; memcpy(achBuffer, chData,
\* strlen(chData)); pthread_mutex_unlock; bSendFlag = true (166-170).
S_Drain(c) ==
    /\ procAlive
    /\ spc[c] = "s_drain"
    /\ LET s == slotOf[c] IN
          /\ sbuf' = [sbuf EXCEPT ![c] = Memcpy(Memset0(@), chData[s], Strlen(chData[s]))]
          /\ hasData' = [hasData EXCEPT ![s] = FALSE]
          /\ mtx' = [mtx EXCEPT ![s] = 0]
    /\ spc' = [spc EXCEPT ![c] = "s_write"]
    /\ UNCHANGED <<procAlive, mainVars, sock, exitFlag, chData, lastDep, slotOf, recvVars, swait, envVars>>
    /\ UNCHANGED <<lastRead, emtx, libVars>>

\* What strlen(achBuffer) bytes of the sender's buffer are: the bytes before
\* the first NUL; a buffer with no NUL is read past its end, which yields the
\* buffer alone or the buffer followed by bytes of the stack.
Written(buf) ==
    IF Strlen(buf) < BUFFER_SIZE
    THEN { Prefix(buf, Strlen(buf)) }
    ELSE { Prefix(buf, BUFFER_SIZE), Append(Prefix(buf, BUFFER_SIZE), GarbageByte) }

\* write(iClientSock, achBuffer, strlen(achBuffer)); its result is not
\* looked at; bSendFlag = false; back to the top (173-176).  achBuffer is not
\* read again before the memset of the next drain: it is kept as zeros.
S_Write(c) ==
    /\ procAlive
    /\ spc[c] = "s_write"
    /\ sbuf' = [sbuf EXCEPT ![c] = Zeros]
    /\ spc' = [spc EXCEPT ![c] = "s_top"]
    /\ UNCHANGED <<procAlive, mainVars, slotVars, slotOf, recvVars, swait, envVars>>
    /\ UNCHANGED <<lastRead, emtx, libVars>>

\* After the loop: the disconnect is printed and exitFlagMutex is locked
\* (179-184).
S_Exit(c) ==
    /\ procAlive
    /\ spc[c] = "s_exit"
    /\ emtx[slotOf[c]] = 0
    /\ emtx' = [emtx EXCEPT ![slotOf[c]] = Sid(c)]
    /\ spc' = [spc EXCEPT ![c] = "s_setflag"]
    /\ UNCHANGED <<procAlive, mainVars, slotVars, slotOf, recvVars, sbuf, swait, envVars>>
    /\ UNCHANGED <<lastRead, libVars>>

\* bExitFlag = true; pthread_mutex_unlock(&exitFlagMutex); pthread_exit
\* (185-187).
S_SetFlag(c) ==
    /\ procAlive
    /\ spc[c] = "s_setflag"
    /\ exitFlag' = [exitFlag EXCEPT ![slotOf[c]] = TRUE]
    /\ emtx' = [emtx EXCEPT ![slotOf[c]] = 0]
    /\ spc' = [spc EXCEPT ![c] = "s_done"]
    /\ UNCHANGED <<procAlive, mainVars, sock, hasData, chData, mtx, lastDep, slotOf, recvVars, sbuf, swait, envVars>>
    /\ UNCHANGED <<lastRead, libVars>>

\* ------------------------------------------------------------ specification
Acceptor == M_Select \/ M_Accept \/ M_Scan \/ M_Init \/ M_Spawn

Receiver(c) ==
    \/ R_Start(c) \/ R_Select(c) \/ R_Read(c) \/ R_Dep1(c) \/ R_Dep2(c)
    \/ R_Unlock(c) \/ R_Err(c) \/ R_Zero(c) \/ R_Exit(c) \/ R_Flag(c)

Sender(c) ==
    \/ S_Start(c) \/ S_Top(c) \/ S_Flag(c) \/ S_Enter(c) \/ S_Timeout(c) \/ S_Wake(c)
    \/ S_Drain(c) \/ S_Write(c) \/ S_Exit(c) \/ S_SetFlag(c)

Next ==
    \/ Acceptor
    \/ \E c \in Conn : Receiver(c)
    \/ \E c \in Conn : Sender(c)
    \/ \E f \in Fds : PeerClose(f)
    \/ \E f \in Fds : PeerReset(f)

Spec == Init /\ [][Next]_vars

\* Every thread that can take a step again and again is eventually
\* scheduled: select and pthread_cond_timedwait return when their timeout
\* expires, and a thread that waits for a mutex gets it when the mutex is
\* released again and again.  The environment (new connections, peers
\* closing) is under no obligation.
Fairness ==
    /\ \A c \in Conn : SF_vars(Receiver(c)) /\ SF_vars(Sender(c))
    /\ WF_vars(M_Scan \/ M_Init \/ M_Spawn)

\* MaxConn connections, LiveSend messages.
LiveSpec == LiveInit /\ [][Next]_vars /\ Fairness

\* One connection, LiveSend messages.
LiveSpec1 == InitWith(1, LiveSend) /\ [][Next]_vars /\ Fairness

TypeOK ==
    /\ procAlive \in BOOLEAN
    /\ mpc \in {"m_select", "m_accept", "m_accept_err", "m_scan", "m_init", "m_spawn"}
    /\ sock \in [Slots -> Fds]
    /\ rpc \in [Conn -> RPos]
    /\ spc \in [Conn -> SPos]

\* ------------------------------------- checkClientConnections, tcpSock.c 138-150
\* recv(fd, buffer, 1, MSG_PEEK | MSG_DONTWAIT): -1 (error, or nothing to
\* read yet), 0 (end of stream) or 1 (a byte is pending).
RecvResults == {-1, 0, 1}

\* The arrays a caller passes: SweepLen entries, each 0 (free) or a
\* descriptor, no descriptor twice.
SweepFds == 1..SweepLen
SweepArrays ==
    { a \in [1..SweepLen -> {0} \cup SweepFds] :
        \A j, k \in 1..SweepLen : (j # k /\ a[j] # 0) => a[j] # a[k] }

\* A call checkClientConnections(piClientSockets, iMaxClients) begins.  orig,
\* peeked and closed are history: the array as passed, what recv returned
\* for entry k (<<>>: recv was not called), the descriptors close() was
\* called on.
SweepInit ==
    \E a \in SweepArrays, n \in 0..SweepLen :
        sweep = [pc |-> "loop", piClientSockets |-> a, iMaxClients |-> n, i |-> 1,
                 orig |-> a, peeked |-> [k \in 1..SweepLen |-> <<>>], closed |-> {}]

\* if (result == 0), line 143
Disconnected_le(result) == result <= 0
Disconnected(result) == result = 0

\* One iteration on a free entry: if (piClientSockets[i] != 0) is false.
CC_Skip ==
    /\ sweep.pc = "loop"
    /\ sweep.i <= sweep.iMaxClients
    /\ sweep.piClientSockets[sweep.i] = 0
    /\ sweep' = [sweep EXCEPT !.i = @ + 1]
    /\ UNCHANGED <<serverVars, cliCall, srvCall, client>>

\* One iteration on an entry with a descriptor: recv; on end of stream
\* handleClientDisconnection (close) and piClientSockets[i] = 0 (140-148).
CC_Peek ==
    /\ sweep.pc = "loop"
    /\ sweep.i <= sweep.iMaxClients
    /\ sweep.piClientSockets[sweep.i] # 0
    /\ \E result \in RecvResults :
          sweep' = IF Disconnected(result)
                   THEN [sweep EXCEPT !.peeked[sweep.i] = <<result>>,
                                      !.closed = @ \cup {sweep.piClientSockets[sweep.i]},
                                      !.piClientSockets[sweep.i] = 0,
                                      !.i = @ + 1]
                   ELSE [sweep EXCEPT !.peeked[sweep.i] = <<result>>,
                                      !.i = @ + 1]
    /\ UNCHANGED <<serverVars, cliCall, srvCall, client>>

\* The loop condition i < iMaxClients fails: the function returns.
CC_Return ==
    /\ sweep.pc = "loop"
    /\ sweep.i > sweep.iMaxClients
    /\ sweep' = [sweep EXCEPT !.pc = "done"]
    /\ UNCHANGED <<serverVars, cliCall, srvCall, client>>

SweepNext == CC_Skip \/ CC_Peek \/ CC_Return

\* checkClientConnections called on its own: the server of tcpServer.c never
\* calls it, its state stays as it starts.
SweepStart == ServerInit(0, 0) /\ SweepInit /\ cliCall = NoCall /\ srvCall = NoCall /\ client = NoCall

SweepSpec == SweepStart /\ [][SweepNext]_vars

\* ----------------------------------------- createClientSocket, tcpSock.c 108-131
\* Descriptors socket() can return.
CliFds == 0..MaxCliFd

\* inet_pton(AF_INET, kpchIp, ...): 1 (address converted), 0 (kpchIp is not
\* a dotted-decimal address), -1 (error).
PtonResults == {-1, 0, 1}

\* if (inet_pton(...) <= 0), line 120
PtonFails_lt(r) == r < 0
PtonFails(r) == r <= 0

\* A caller that has not called yet.  open: descriptors of the process that
\* socket() returned and nobody closed; connected: those connect() succeeded
\* on; failed (history): the step of the current call that failed; alive: the
\* process has not been terminated.
CliInit ==
    cliCall = [pc |-> "idle", iSock |-> -1, ret |-> -1, open |-> {}, connected |-> {},
               failed |-> "no", calls |-> 0, alive |-> TRUE]

\* The caller calls createClientSocket(kpchIp, iPort): the first time, or
\* again after a result (a retry after -1, one more connection after success).
CS_Call ==
    /\ cliCall.alive
    /\ cliCall.pc \in {"idle", "returned"}
    /\ cliCall.calls < MaxCalls
    /\ cliCall' = [cliCall EXCEPT !.pc = "socket", !.iSock = -1, !.ret = -1,
                                   !.failed = "no", !.calls = @ + 1]
    /\ UNCHANGED <<serverVars, sweep, srvCall, client>>

\* iSock = socket(AF_INET, SOCK_STREAM, 0); < 0: perror, return -1 (112-115).
CS_Socket ==
    /\ cliCall.alive
    /\ cliCall.pc = "socket"
    /\ \/ cliCall' = [cliCall EXCEPT !.pc = "returned", !.ret = -1, !.failed = "socket"]
       \/ \E f \in CliFds \ cliCall.open :
             cliCall' = [cliCall EXCEPT !.pc = "pton", !.iSock = f, !.open = @ \cup {f}]
    /\ UNCHANGED <<serverVars, sweep, srvCall, client>>

\* inet_pton; <= 0: perror, return -1 (117-123).  The socket stays open.
CS_Pton ==
    /\ cliCall.alive
    /\ cliCall.pc = "pton"
    /\ \E r \in PtonResults :
          cliCall' = IF PtonFails(r)
                     THEN [cliCall EXCEPT !.pc = "returned", !.ret = -1, !.failed = "pton"]
                     ELSE [cliCall EXCEPT !.pc = "connect",
                                          !.failed = IF r = 1 THEN "no" ELSE "pton"]
    /\ UNCHANGED <<serverVars, sweep, srvCall, client>>

\* connect; < 0: perror, return -1; else return iSock (125-130).
CS_Connect ==
    /\ cliCall.alive
    /\ cliCall.pc = "connect"
    /\ \/ cliCall' = [cliCall EXCEPT !.pc = "returned", !.ret = -1,
                                      !.failed = IF @ = "no" THEN "connect" ELSE @]
       \/ cliCall' = [cliCall EXCEPT !.pc = "returned", !.ret = cliCall.iSock,
                                      !.connected = @ \cup {cliCall.iSock}]
    /\ UNCHANGED <<serverVars, sweep, srvCall, client>>

CliNext == CS_Call \/ CS_Socket \/ CS_Pton \/ CS_Connect

CliStart == ServerInit(0, 0) /\ CliInit /\ sweep = NoCall /\ srvCall = NoCall /\ client = NoCall

\* createClientSocket called by a caller of its own, up to MaxCalls times.
CliSpec == CliStart /\ [][CliNext]_vars

\* ----------------------------------------- createServerSocket, tcpSock.c 29-106
\* int iSockOpt = 1 (33), keepalive, keepidle, keepinterval, keepcount (49-52)
iSockOpt == 1
keepalive == 1
keepidle == 10
keepinterval == 5
keepcount == 3

\* The setsockopt calls in the order of the code: option, value.
\* SO_REUSEADDR | SO_REUSEPORT is 2 | 15 = 15, the number of SO_REUSEPORT.
SockOpts == << <<"SO_REUSEPORT", iSockOpt>>, <<"SO_KEEPALIVE", keepalive>>,
               <<"TCP_KEEPIDLE", keepidle>>, <<"TCP_KEEPINTVL", keepinterval>>,
               <<"TCP_KEEPCNT", keepcount>> >>

\* socket() returns -1 or a descriptor; descriptor 0 when the process has no
\* standard input open.
SrvSocketResults == {-1} \cup (0..MaxSrvFd)

\* setsockopt, bind and listen return 0 or -1, and -1 on what is not a
\* descriptor (EBADF).
CallResults(fd) == IF fd < 0 THEN {-1} ELSE {-1, 0}

\* if ((iServerSock = socket(...)) == 0), line 35
SocketFails(r) == r = 0

\* if (bind(...) < 0), line 95
BindFails_never(r) == FALSE
BindFails(r) == r < 0

\* A call createServerSocket(iPort, iMaxClients) begins.  opts: the options
\* set on the socket; failed (history): the steps that returned a failure.
SrvInit ==
    \E port \in 1..MaxPort, n \in 0..MaxBacklog :
        srvCall = [pc |-> "socket", iPort |-> port, iMaxClients |-> n, iServerSock |-> -1,
                   k |-> 1, opts |-> {}, bound |-> 0, backlog |-> -1, failed |-> {},
                   ret |-> -1]

\* socket(); == 0: perror, exit (35-38).
SS_Socket ==
    /\ srvCall.pc = "socket"
    /\ \E r \in SrvSocketResults :
          srvCall' = [srvCall EXCEPT !.iServerSock = r,
                                     !.failed = IF r < 0 THEN @ \cup {"socket"} ELSE @,
                                     !.pc = IF SocketFails(r) THEN "exited" ELSE "setsockopt"]
    /\ UNCHANGED <<serverVars, sweep, cliCall, client>>

\* The k-th setsockopt; a failure: perror, exit (43-89).
SS_Setsockopt ==
    /\ srvCall.pc = "setsockopt"
    /\ \E r \in CallResults(srvCall.iServerSock) :
          srvCall' = IF r # 0
                     THEN [srvCall EXCEPT !.failed = @ \cup {SockOpts[srvCall.k][1]},
                                          !.pc = "exited"]
                     ELSE [srvCall EXCEPT !.opts = @ \cup {SockOpts[srvCall.k]},
                                          !.k = @ + 1,
                                          !.pc = IF srvCall.k = Len(SockOpts)
                                                 THEN "bind" ELSE "setsockopt"]
    /\ UNCHANGED <<serverVars, sweep, cliCall, client>>

\* bind() to INADDR_ANY, iPort; < 0: perror, exit (91-98).
SS_Bind ==
    /\ srvCall.pc = "bind"
    /\ \E r \in CallResults(srvCall.iServerSock) :
          srvCall' = [srvCall EXCEPT !.bound = IF r = 0 THEN srvCall.iPort ELSE @,
                                     !.failed = IF r = 0 THEN @ ELSE @ \cup {"bind"},
                                     !.pc = IF BindFails(r) THEN "exited" ELSE "listen"]
    /\ UNCHANGED <<serverVars, sweep, cliCall, client>>

\* listen(iServerSock, iMaxClients); < 0: perror, exit; return iServerSock
\* (100-105).
SS_Listen ==
    /\ srvCall.pc = "listen"
    /\ \E r \in CallResults(srvCall.iServerSock) :
          srvCall' = IF r < 0
                     THEN [srvCall EXCEPT !.failed = @ \cup {"listen"}, !.pc = "exited"]
                     ELSE [srvCall EXCEPT !.backlog = srvCall.iMaxClients,
                                          !.ret = srvCall.iServerSock,
                                          !.pc = "returned"]
    /\ UNCHANGED <<serverVars, sweep, cliCall, client>>

SrvNext == SS_Socket \/ SS_Setsockopt \/ SS_Bind \/ SS_Listen

SrvStart == ServerInit(0, 0) /\ SrvInit /\ sweep = NoCall /\ cliCall = NoCall /\ client = NoCall

\* createServerSocket called once, with every outcome of every system call.
SrvSpec == SrvStart /\ [][SrvNext]_vars

\* ------------------------------------------------------ tcpClient.c, 53-219
\* Sessions (connect, work, close, "reconnect? y") of one run of the client,
\* and lines the user types in it.
MaxSessions == 2
MaxLines == 2

\* Positions of main(), of sendMessages and of receiveMessages.
CMPos == {"connect", "create_s", "create_r", "join_s", "join_r", "close", "retry",
          "fail_close", "fail_return", "returned"}
CWPos == {"none", "top", "check", "select", "fgets", "write", "read",
          "stop_lock", "stop_set", "done"}

\* A worker thread of the client exists and has not called pthread_exit.
CLive(pos) == pos \notin {"none", "done"}

\* CLIENT_INFO stClientInfo = { .iSock = 0, .bIsRunning = false, ...,
\* .uRunningMutex = PTHREAD_MUTEX_INITIALIZER } (173-180); main() is about
\* to connect.  sockst: the session socket, "none" (not created), "open",
\* "closed"; srv: the server's end, "open", "fin" (closed), "rst" (reset);
\* lines, eof: what the user still types, standard input at end of file.
ClientInit ==
    client = [pc |-> "connect", alive |-> TRUE, sockst |-> "none", srv |-> "none",
              bIsRunning |-> FALSE, uRunningMutex |-> "free",
              sendMessages |-> "none", receiveMessages |-> "none",
              lines |-> MaxLines, eof |-> FALSE, sessions |-> 0]

\* stClientInfo.iSock = createTcpClientSocket(SERVER_IP, PORT); < 0: return
\* -1, which ends the process; else bIsRunning = true (183-188).  The worker
\* threads of the session before, if there was one, have been joined: the
\* new session has no worker yet.
CM_Connect ==
    /\ client.alive
    /\ client.pc = "connect"
    /\ \/ client' = [client EXCEPT !.pc = "returned", !.alive = FALSE]
       \/ /\ client.sessions < MaxSessions
          /\ client' = [client EXCEPT !.pc = "create_s", !.sockst = "open", !.srv = "open",
                                      !.bIsRunning = TRUE, !.sessions = @ + 1,
                                      !.sendMessages = "none", !.receiveMessages = "none"]
    /\ UNCHANGED <<serverVars, sweep, cliCall, srvCall>>

\* pthread_create of sendMessages; on failure close(iSock) and return -1
\* (191-195).
CM_CreateSend ==
    /\ client.alive
    /\ client.pc = "create_s"
    /\ \/ client' = [client EXCEPT !.pc = "create_r", !.sendMessages = "top"]
       \/ client' = [client EXCEPT !.pc = "fail_close"]
    /\ UNCHANGED <<serverVars, sweep, cliCall, srvCall>>

\* pthread_create of receiveMessages; on failure close(iSock) and return -1
\* (197-201).
CM_CreateRecv ==
    /\ client.alive
    /\ client.pc = "create_r"
    /\ \/ client' = [client EXCEPT !.pc = "join_s", !.receiveMessages = "top"]
       \/ client' = [client EXCEPT !.pc = "fail_close"]
    /\ UNCHANGED <<serverVars, sweep, cliCall, srvCall>>

\* close(stClientInfo.iSock) after a failed pthread_create (193, 199).
CM_FailClose ==
    /\ client.alive
    /\ client.pc = "fail_close"
    /\ client' = [client EXCEPT !.pc = "fail_return", !.sockst = "closed"]
    /\ UNCHANGED <<serverVars, sweep, cliCall, srvCall>>

\* return -1 from main() (194, 200): the process ends, with its threads.
CM_FailReturn ==
    /\ client.alive
    /\ client.pc = "fail_return"
    /\ client' = [client EXCEPT !.pc = "returned", !.alive = FALSE]
    /\ UNCHANGED <<serverVars, sweep, cliCall, srvCall>>

\* pthread_join(sendThreadId) returns once sendMessages has terminated (204).
CM_JoinSend ==
    /\ client.alive
    /\ client.pc = "join_s"
    /\ client.sendMessages = "done"
    /\ client' = [client EXCEPT !.pc = "join_r"]
    /\ UNCHANGED <<serverVars, sweep, cliCall, srvCall>>

\* pthread_join(recvThreadId) returns once receiveMessages has terminated (205).
CM_JoinRecv ==
    /\ client.alive
    /\ client.pc = "join_r"
    /\ client.receiveMessages = "done"
    /\ client' = [client EXCEPT !.pc = "close"]
    /\ UNCHANGED <<serverVars, sweep, cliCall, srvCall>>

\* close(stClientInfo.iSock) at the end of a session (207).
CM_Close ==
    /\ client.alive
    /\ client.pc = "close"
    /\ client' = [client EXCEPT !.pc = "retry", !.sockst = "closed"]
    /\ UNCHANGED <<serverVars, sweep, cliCall, srvCall>>

\* scanf(" %c", &retry): 'y' or 'Y' goes round the loop, anything else
\* leaves it and main() returns 0 (210-218).
CM_Retry ==
    /\ client.alive
    /\ client.pc = "retry"
    /\ \/ client' = [client EXCEPT !.pc = "connect"]
       \/ client' = [client EXCEPT !.pc = "returned", !.alive = FALSE]
    /\ UNCHANGED <<serverVars, sweep, cliCall, srvCall>>

ClientMain ==
    \/ CM_Connect \/ CM_CreateSend \/ CM_CreateRecv \/ CM_FailClose \/ CM_FailReturn
    \/ CM_JoinSend \/ CM_JoinRecv \/ CM_Close \/ CM_Retry

\* write(iSock, ...) or read(iSock, ...) fails: the descriptor is closed or
\* the connection was reset.
CIoFails == client.sockst # "open" \/ client.srv = "rst"

\* sendMessages: pthread_mutex_lock(&uRunningMutex) at the top of the loop (61).
SM_Lock ==
    /\ client.alive
    /\ client.sendMessages = "top"
    /\ client.uRunningMutex = "free"
    /\ client' = [client EXCEPT !.uRunningMutex = "sendMessages", !.sendMessages = "check"]
    /\ UNCHANGED <<serverVars, sweep, cliCall, srvCall>>

\* The check of the sender without the test of bIsRunning.
SM_Check_norunningtest ==
    /\ client.alive
    /\ client.sendMessages = "check"
    /\ client' = [client EXCEPT !.uRunningMutex = "free", !.sendMessages = "select"]
    /\ UNCHANGED <<serverVars, sweep, cliCall, srvCall>>

\* if (!bIsRunning) { unlock; break; } unlock (62-66); after the break,
\* pthread_exit (97).
SM_Check ==
    /\ client.alive
    /\ client.sendMessages = "check"
    /\ client' = [client EXCEPT !.uRunningMutex = "free",
                                !.sendMessages = IF client.bIsRunning THEN "select" ELSE "done"]
    /\ UNCHANGED <<serverVars, sweep, cliCall, srvCall>>

\* select() on standard input with a 1 s timeout (68-74): input is there (a
\* line the user typed, or end of file), or the call returns 0 or -1 and the
\* loop goes round.
SM_Select ==
    /\ client.alive
    /\ client.sendMessages = "select"
    /\ \/ /\ client.lines > 0 \/ client.eof
          /\ client' = [client EXCEPT !.sendMessages = "fgets"]
       \/ client' = [client EXCEPT !.sendMessages = "top"]
    /\ UNCHANGED <<serverVars, sweep, cliCall, srvCall>>

\* fgets; the newline is cut off; strcmp with "exit" (75-78).  A typed line is
\* "exit" or a message.  At end of file fgets returns NULL, which is not
\* tested, and achBuffer is whatever it held: it may or may not compare
\* equal to "exit".
SM_Fgets ==
    /\ client.alive
    /\ client.sendMessages = "fgets"
    /\ \E line \in {"exit", "message"} :
          client' = [client EXCEPT !.sendMessages = IF line = "exit" THEN "stop_lock" ELSE "write",
                                   !.lines = IF client.eof THEN @ ELSE @ - 1]
    /\ UNCHANGED <<serverVars, sweep, cliCall, srvCall>>

\* write(iSock, achBuffer, strlen(achBuffer)) (86-93): < 0 leads to the
\* stop sequence; on a connection that was reset the write may instead raise
\* SIGPIPE, which is not handled and ends the process.  A write to a
\* connection the server has closed succeeds and draws a reset.
SM_Write ==
    /\ client.alive
    /\ client.sendMessages = "write"
    /\ IF CIoFails
       THEN \/ client' = [client EXCEPT !.sendMessages = "stop_lock"]
            \/ /\ client.sockst = "open"
               /\ client' = [client EXCEPT !.alive = FALSE]
       ELSE client' = [client EXCEPT !.sendMessages = "top",
                                     !.srv = IF @ = "fin" THEN "rst" ELSE @]
    /\ UNCHANGED <<serverVars, sweep, cliCall, srvCall>>

\* pthread_mutex_lock before bIsRunning = false (79, 88).
SM_StopLock ==
    /\ client.alive
    /\ client.sendMessages = "stop_lock"
    /\ client.uRunningMutex = "free"
    /\ client' = [client EXCEPT !.uRunningMutex = "sendMessages", !.sendMessages = "stop_set"]
    /\ UNCHANGED <<serverVars, sweep, cliCall, srvCall>>

\* bIsRunning = false; unlock; break or pthread_exit (80-83, 89-91).
SM_StopSet ==
    /\ client.alive
    /\ client.sendMessages = "stop_set"
    /\ client' = [client EXCEPT !.bIsRunning = FALSE, !.uRunningMutex = "free",
                                !.sendMessages = "done"]
    /\ UNCHANGED <<serverVars, sweep, cliCall, srvCall>>

ClientSender ==
    SM_Lock \/ SM_Check \/ SM_Select \/ SM_Fgets \/ SM_Write \/ SM_StopLock \/ SM_StopSet

\* receiveMessages: pthread_mutex_lock(&uRunningMutex) at the top of the
\* loop (115).
RM_Lock ==
    /\ client.alive
    /\ client.receiveMessages = "top"
    /\ client.uRunningMutex = "free"
    /\ client' = [client EXCEPT !.uRunningMutex = "receiveMessages", !.receiveMessages = "check"]
    /\ UNCHANGED <<serverVars, sweep, cliCall, srvCall>>

\* if (!bIsRunning) { unlock; break; } unlock (116-120); after the break,
\* pthread_exit (160).
RM_Check ==
    /\ client.alive
    /\ client.receiveMessages = "check"
    /\ client' = [client EXCEPT !.uRunningMutex = "free",
                                !.receiveMessages = IF client.bIsRunning THEN "select" ELSE "done"]
    /\ UNCHANGED <<serverVars, sweep, cliCall, srvCall>>

\* select() on iSock with a 500 ms timeout (122-137): an error (the
\* descriptor is closed, a signal) leads to the stop sequence; readable (data,
\* end of stream or a reset) leads to read(); a timeout goes round the loop.
RM_Select ==
    /\ client.alive
    /\ client.receiveMessages = "select"
    /\ IF client.sockst # "open"
       THEN client' = [client EXCEPT !.receiveMessages = "stop_lock"]
       ELSE \/ client' = [client EXCEPT !.receiveMessages = "stop_lock"]
            \/ client' = [client EXCEPT !.receiveMessages = "read"]
            \/ client' = [client EXCEPT !.receiveMessages = "top"]
    /\ UNCHANGED <<serverVars, sweep, cliCall, srvCall>>

\* read() (138-155): > 0 is printed and the loop goes round; 0 (the server
\* closed) and < 0 lead to the stop sequence.
RM_Read ==
    /\ client.alive
    /\ client.receiveMessages = "read"
    /\ client' = [client EXCEPT !.receiveMessages =
                                    IF CIoFails \/ client.srv = "fin" THEN "stop_lock" ELSE "top"]
    /\ UNCHANGED <<serverVars, sweep, cliCall, srvCall>>

\* pthread_mutex_lock before bIsRunning = false (132, 145, 151).
RM_StopLock ==
    /\ client.alive
    /\ client.receiveMessages = "stop_lock"
    /\ client.uRunningMutex = "free"
    /\ client' = [client EXCEPT !.uRunningMutex = "receiveMessages",
                                !.receiveMessages = "stop_set"]
    /\ UNCHANGED <<serverVars, sweep, cliCall, srvCall>>

\* bIsRunning = false; unlock; break or pthread_exit (133-135, 146-148,
\* 152-154).
RM_StopSet ==
    /\ client.alive
    /\ client.receiveMessages = "stop_set"
    /\ client' = [client EXCEPT !.bIsRunning = FALSE, !.uRunningMutex = "free",
                                !.receiveMessages = "done"]
    /\ UNCHANGED <<serverVars, sweep, cliCall, srvCall>>

ClientReceiver ==
    RM_Lock \/ RM_Check \/ RM_Select \/ RM_Read \/ RM_StopLock \/ RM_StopSet

\* The server closes its end of the session's connection, or the connection
\* is reset.
ServerEnds ==
    /\ client.alive
    /\ client.sockst = "open"
    /\ \/ client.srv = "open" /\ client' = [client EXCEPT !.srv = "fin"]
       \/ client.srv \in {"open", "fin"} /\ client' = [client EXCEPT !.srv = "rst"]
    /\ UNCHANGED <<serverVars, sweep, cliCall, srvCall>>

\* Standard input reaches end of file.
StdinEof ==
    /\ client.alive
    /\ ~client.eof
    /\ client' = [client EXCEPT !.eof = TRUE]
    /\ UNCHANGED <<serverVars, sweep, cliCall, srvCall>>

ClientNext == ClientMain \/ ClientSender \/ ClientReceiver \/ ServerEnds \/ StdinEof

ClientStart ==
    ServerInit(0, 0) /\ ClientInit /\ sweep = NoCall /\ cliCall = NoCall /\ srvCall = NoCall

\* Threads of the client are scheduled again and again: select returns at
\* its timeout, and a thread waiting for uRunningMutex gets it when it is
\* released again and again.
ClientFairness ==
    /\ SF_vars(ClientSender)
    /\ SF_vars(ClientReceiver)
    /\ WF_vars(CM_CreateSend \/ CM_CreateRecv \/ CM_FailClose \/ CM_FailReturn
               \/ CM_JoinSend \/ CM_JoinRecv \/ CM_Close)

\* The client of tcpClient.c, up to MaxSessions sessions.
ClientSpec == ClientStart /\ [][ClientNext]_vars /\ ClientFairness

\* ----------------------------------------------------------------- claims
\* The workers started on slot s.
Bound(s) == { c \in Conn : slotOf[c] = s }

\* C1: every accepted descriptor is installed in a slot (or is the one main()
\* is placing right now) or has been closed; none stays open outside the
\* table.
C1_NoDescriptorLeak ==
    \A c \in Conn :
        fdst[c] = "open" =>
            \/ \E s \in Slots : sock[s] = c
            \/ mpc = "m_scan" /\ mfd = c

\* C2: once the peer of connection c has disconnected (orderly close) and
\* every worker started on the slot of c has terminated, that slot is free
\* again (sock = 0); no thread is left that could free it later.
C2_SlotReclaimed ==
    \A c \in Conn :
        ( /\ slotOf[c] # 0
          /\ peer[c] = "fin"
          /\ rpc[c] = "r_done"
          /\ spc[c] = "s_done"
          /\ \A d \in Bound(slotOf[c]) : ~RLive(d) /\ ~SLive(d)
          /\ ~(mpc \in {"m_init", "m_spawn"} /\ mslot = slotOf[c]) )
        => sock[slotOf[c]] = 0

\* C4: a drain copies out exactly the bytes of the last deposit completed
\* into the slot's mailbox, never bytes of a deposit in progress.
C4_LastWriteWins ==
    [][ \A c \in Conn :
            (spc[c] = "s_drain" /\ spc'[c] = "s_write")
            => Prefix(sbuf'[c], Strlen(sbuf'[c])) = lastDep[slotOf[c]] ]_vars

\* C6: the bytes a sender writes to a peer descriptor were read from that
\* descriptor.
C6_Isolation ==
    [][ \A c \in Conn :
            (spc[c] = "s_write" /\ spc'[c] # "s_write" /\ CurFd(c) # 0)
            => \A d \in Written(sbuf[c]) : Origin(d) \subseteq {CurFd(c)} ]_vars

\* C7: a free slot has no running worker, an occupied slot (once main() has
\* started its workers) has the worker pair of its descriptor, and no slot
\* has two running receivers or two running senders.
C7_SlotInvariant ==
    \A s \in Slots :
        /\ sock[s] = 0 => \A c \in Bound(s) : ~RLive(c) /\ ~SLive(c)
        /\ (sock[s] # 0 /\ ~(mpc \in {"m_init", "m_spawn"} /\ mslot = s))
              => /\ slotOf[sock[s]] = s
                 /\ rpc[sock[s]] # "none" /\ spc[sock[s]] # "none"
        /\ Cardinality({ c \in Bound(s) : RLive(c) }) <= 1
        /\ Cardinality({ c \in Bound(s) : SLive(c) }) <= 1

\* C8: after a negative read() the receiver only sets the exit flag and
\* terminates: from the error branch it never goes back to the select.
C8_ReadErrorTerminates ==
    [][ \A c \in Conn :
            rpc[c] \in {"r_err", "r_zero"}
            => rpc'[c] \in {"r_err", "r_zero", "r_exit", "r_done"} ]_vars

\* C9: after a failed write() the sender only sets the exit flag and
\* terminates: it never goes back to the top of its loop.
C9_WriteErrorTerminates ==
    [][ \A c \in Conn :
            (spc[c] = "s_write" /\ spc'[c] # "s_write" /\ WriteFails(CurFd(c)))
            => spc'[c] \in {"s_exit", "s_done"} ]_vars

\* C10: a failure of accept() never terminates the process.
C10_AcceptFailureLocal ==
    [][ (mpc \in {"m_accept", "m_accept_err"}) => (procAlive' = TRUE) ]_vars

\* C3: once the receiver of a connection has read 0 bytes from the peer of
\* that connection, it and the sender started with it eventually have both
\* terminated (or the process has exited).  Stated for the last connection
\* the run accepts, the one that can find workers of earlier occupants on
\* its slot.
C3_OrderlyCloseConverges ==
    (rpc[MaxConn] = "r_eof" /\ CurFd(MaxConn) = MaxConn)
    ~> (~procAlive \/ (rpc[MaxConn] = "r_done" /\ spc[MaxConn] = "s_done"))

\* C5: once a receiver has deposited the one message of the run (some bytes
\* that are not NUL) into a slot,
\* a sender of the slot eventually stands at write() with that message,
\* unless the slot's connection ends (peer not open any more, slot reset) or
\* the process exits.
C5_EchoDelivery ==
    \A s \in Slots :
        (lastDep[s] # <<>> /\ \E c \in Bound(s) : rpc[c] = "r_unlock")
        ~> \/ \E d \in Bound(s) :
                 spc[d] = "s_write" /\ Prefix(sbuf[d], Strlen(sbuf[d])) = lastDep[s]
           \/ sock[s] = 0
           \/ peer[sock[s]] # "open"
           \/ ~procAlive

\* C11: when main() has installed a descriptor in a slot and initialised it
\* (the step that leads to the pthread_create calls), the slot's mailbox is
\* fresh (hasData false, payload all NUL) and the exit flag is false.
C11_FreshMailbox ==
    [][ (mpc = "m_init" /\ mpc' = "m_spawn")
        => /\ hasData'[mslot'] = FALSE
           /\ chData'[mslot'] = Zeros
           /\ exitFlag'[mslot'] = FALSE ]_vars

\* C12: when one message has been read in the whole run, the bytes a sender
\* writes (here in the most favourable outcome of strlen(achBuffer), the
\* bytes before the first NUL of its buffer) are exactly the bytes that
\* read() returned: same length, same content.
C12_ByteFidelity ==
    [][ \A c \in Conn :
            (spc[c] = "s_write" /\ spc'[c] # "s_write" /\ budget = MaxSend - 1)
            => Prefix(sbuf[c], Strlen(sbuf[c])) = lastRead ]_vars

\* C13: when checkClientConnections returns, exactly the entries below
\* iMaxClients that held a descriptor whose peek returned 0 have been closed
\* and set to 0; every other entry is as it was passed and close() was not
\* called on its descriptor.
C13_SweepExact ==
    sweep.pc = "done" =>
        \A k \in 1..SweepLen :
            IF k <= sweep.iMaxClients /\ sweep.orig[k] # 0 /\ sweep.peeked[k] = <<0>>
            THEN sweep.piClientSockets[k] = 0 /\ sweep.orig[k] \in sweep.closed
            ELSE sweep.piClientSockets[k] = sweep.orig[k] /\ sweep.orig[k] \notin sweep.closed

\* C13 witness: a finished sweep that closed one entry and left alone an
\* entry whose peek failed, one with a pending byte, or one beyond iMaxClients.
C13_Witness ==
    /\ sweep.pc = "done"
    /\ \E k \in 1..SweepLen : sweep.peeked[k] = <<0>> /\ sweep.piClientSockets[k] = 0
    /\ \E k \in 1..SweepLen : sweep.peeked[k] = <<-1>> /\ sweep.piClientSockets[k] # 0
    /\ \E k \in 1..SweepLen :
          sweep.orig[k] # 0 /\ (sweep.peeked[k] = <<1>> \/ k > sweep.iMaxClients)

\* C14: createClientSocket never terminates the process; when it returns
\* after a failed step (socket, address conversion, connect) the result is
\* -1, and when it returns with no step failed the result is a descriptor
\* >= 0 that is open and connected.
C14_ClientSocketResult ==
    /\ cliCall.pc # "none" => cliCall.alive
    /\ cliCall.pc = "returned" =>
          IF cliCall.failed = "no"
          THEN cliCall.ret >= 0 /\ cliCall.ret \in cliCall.open
               /\ cliCall.ret \in cliCall.connected
          ELSE cliCall.ret = -1

\* C14 witness: a call that failed and returned -1 has been retried, and the
\* retry returned a connected descriptor.
C14_Witness ==
    /\ cliCall.pc = "returned"
    /\ cliCall.calls >= 2
    /\ cliCall.failed = "no"
    /\ cliCall.ret >= 0
    /\ cliCall.open # cliCall.connected

\* C15: when createServerSocket has returned, its result is a descriptor
\* >= 0, no setup step has failed, the reuse option and keep-alive (idle 10,
\* interval 5, 3 probes) are set, the socket is bound to iPort and listens
\* with backlog iMaxClients; once a step has failed the function does not
\* return, and it ends only by terminating the process.
C15_ServerSocketConfigured ==
    /\ srvCall.pc = "returned" =>
          /\ srvCall.ret >= 0
          /\ srvCall.failed = {}
          /\ srvCall.opts = { <<"SO_REUSEPORT", 1>>, <<"SO_KEEPALIVE", 1>>,
                              <<"TCP_KEEPIDLE", 10>>, <<"TCP_KEEPINTVL", 5>>,
                              <<"TCP_KEEPCNT", 3>> }
          /\ srvCall.bound = srvCall.iPort
          /\ srvCall.backlog = srvCall.iMaxClients
    /\ (srvCall.pc # "none" /\ srvCall.failed # {}) =>
          /\ srvCall.pc # "returned"
          /\ srvCall.pc \in {"exited", "setsockopt"}
          /\ srvCall.pc = "setsockopt" => srvCall.failed = {"socket"} /\ srvCall.k = 1

\* C15 witness: the function has returned a configured listener on a
\* descriptor above 0.
C15_Witness ==
    /\ srvCall.pc = "returned"
    /\ srvCall.ret > 0
    /\ srvCall.backlog = srvCall.iMaxClients
    /\ Cardinality(srvCall.opts) = Len(SockOpts)

\* C15 witness of the failure case: socket() failed (-1), which the test
\* == 0 lets through, and the process terminated at the first setsockopt.
C15_WitnessSocketFailure ==
    /\ srvCall.pc = "exited"
    /\ srvCall.iServerSock = -1
    /\ srvCall.failed = {"socket", "SO_REUSEPORT"}

\* C16: after a select() of main() that returned an error, main() calls no
\* accept and changes no slot: its next step is back at the select, with the
\* table, the descriptors and the process as they were.
C16_InterruptedWaitRetried ==
    [][ (mpc = "m_accept_err" /\ mpc' # mpc)
        => (mpc' = "m_select" /\ UNCHANGED <<procAlive, nacc, sock, fdst>>) ]_vars

\* C17: whenever a sender enters pthread_cond_timedwait it holds the
\* mailbox mutex of its slot.
C17_LockedWait ==
    [][ \A c \in Conn :
            (spc[c] = "s_enter" /\ spc'[c] = "s_waiting")
            => mtx[slotOf[c]] = Sid(c) ]_vars

\* C18: a receiver that is at its select() or read(), and a sender that is
\* at its write(), has locked neither a mailbox mutex nor an exit-flag mutex.
C18_NoLockAcrossIO ==
    \A c \in Conn : \A s \in Slots :
        /\ rpc[c] \in {"r_select", "r_read"} => (mtx[s] # Rid(c) /\ emtx[s] # Rid(c))
        /\ spc[c] = "s_write" => (mtx[s] # Sid(c) /\ emtx[s] # Sid(c))

\* C18 witness: a sender is at write() with a drained payload while the
\* receiver is at read() and another thread holds the mailbox mutex.
C18_Witness ==
    \E c \in Conn :
        /\ spc[c] = "s_write"
        /\ sbuf[c] # Zeros
        /\ rpc[c] = "r_read"
        /\ mtx[slotOf[c]] # 0

\* C19: a receiver that writes the payload of a deposit, and a sender that
\* reads the payload and clears hasData in a drain, is at that moment the
\* thread that holds the mailbox mutex of the slot.
C19_MailboxMutex ==
    [][ \A c \in Conn :
            /\ (rpc[c] = "r_dep2" /\ rpc'[c] = "r_unlock") => mtx[slotOf[c]] = Rid(c)
            /\ (spc[c] = "s_drain" /\ spc'[c] = "s_write") => mtx[slotOf[c]] = Sid(c) ]_vars

\* C20: once a worker started on a slot has terminated, or the exit flag of
\* a slot with workers is set, every worker started on that slot eventually
\* has terminated (or the process has exited).
C20_PairConverges ==
    \A s \in Slots :
        ( \/ \E c \in Bound(s) : rpc[c] = "r_done" \/ spc[c] = "s_done"
          \/ Bound(s) # {} /\ exitFlag[s] )
        ~> ( \/ ~procAlive
             \/ \A c \in Bound(s) : ~RLive(c) /\ ~SLive(c) )

\* C21: a drain finds hasData true (its payload is a deposit that no drain
\* has taken yet, so no deposit is written twice), and a wait that timed out
\* leads to no write and leaves hasData and the payload as they were.
C21_AtMostOnce ==
    [][ \A c \in Conn :
            /\ (spc[c] = "s_drain" /\ spc'[c] = "s_write") => hasData[slotOf[c]] = TRUE
            /\ (spc[c] = "s_waiting" /\ swait[c] = "waiting" /\ spc'[c] # "s_waiting")
                  => (spc'[c] = "s_top" /\ UNCHANGED <<hasData, chData>>) ]_vars

\* C22: the occupancy field of a slot (iClientSock) changes only by a step
\* of main(): the scan that installs an accepted descriptor; no step of a
\* receiver or of a sender changes it.
C22_SingleWriterOccupancy ==
    [][ sock' # sock => (mpc = "m_scan" /\ mpc' = "m_init") ]_vars

\* C23, first part: once a worker of the client has set bIsRunning to false
\* in a session, both workers of the session eventually have terminated (or
\* the process has ended).
C23_OtherWorkerTerminates ==
    (client.pc \in {"create_r", "join_s", "join_r"} /\ ~client.bIsRunning)
    ~> (~client.alive \/ (client.sendMessages = "done" /\ client.receiveMessages = "done"))

\* C23, second part: in a session that has its two workers, the session
\* socket is closed only when both have terminated.
C23_CloseAfterJoins ==
    ( /\ client.pc # "none"
      /\ client.alive
      /\ client.sockst = "closed"
      /\ client.sendMessages # "none"
      /\ client.receiveMessages # "none" )
    => (client.sendMessages = "done" /\ client.receiveMessages = "done")

C23_CloseOnCreateFailure ==
    /\ client.pc = "fail_return"
    /\ client.sockst = "closed"
    /\ CLive(client.sendMessages)
    /\ client.receiveMessages = "none"

\* C24: for a read() result of n bytes, 1 <= n <= BUFFER_SIZE, every index
\* the receiver writes in achBuffer and in chData, and every index the
\* sender reads in chData or writes in its achBuffer in the drain, is within
\* 0..BUFFER_SIZE-1.  (The read is the first of the run, whose bytes
\* lastRead holds.)
C24_BufferBounds ==
    [][ \A c \in Conn :
            /\ (rpc[c] = "r_read" /\ rpc'[c] = "r_dep1" /\ budget = MaxSend)
                  => R_AchBufferWritten(Len(lastRead')) \subseteq 0..(BUFFER_SIZE - 1)
            /\ (rpc[c] = "r_dep2" /\ rpc'[c] = "r_unlock")
                  => R_ChDataWritten(rbuf[c]) \subseteq 0..(BUFFER_SIZE - 1)
            /\ (spc[c] = "s_drain" /\ spc'[c] = "s_write")
                  => /\ S_ChDataRead(chData[slotOf[c]]) \subseteq 0..(BUFFER_SIZE - 1)
                     /\ S_AchBufferWritten(chData[slotOf[c]]) \subseteq 0..(BUFFER_SIZE - 1) ]_vars

\* C25: every held mutex (mailbox mutex or exit-flag mutex) is held by a
\* thread that has not terminated: no worker ends while it holds one.
C25_NoLockOutlivesHolder ==
    \A s \in Slots : \A c \in Conn :
        /\ (mtx[s] = Rid(c) \/ emtx[s] = Rid(c)) => RLive(c)
        /\ (mtx[s] = Sid(c) \/ emtx[s] = Sid(c)) => SLive(c)

\* C26: a worker that performs a readiness wait, a read or a write through
\* its slot's descriptor field finds there neither the free value 0 nor a
\* descriptor that has been closed.
C26_NoIoOnDeadDescriptor ==
    [][ \A c \in Conn :
            ( \/ rpc[c] \in {"r_select", "r_read"} /\ rpc'[c] # rpc[c]
              \/ spc[c] = "s_write" /\ spc'[c] # "s_write" )
            => (CurFd(c) # 0 /\ fdst[CurFd(c)] # "closed") ]_vars

====
